---- MODULE Spec2Model ----
(***************************************************************************)
(* Discount assignment of partner programs: the createDiscount server      *)
(* action (apps/web/lib/actions/partners/create-discount.ts) run by        *)
(* several callers over one shared relational store.  Every `await` of the *)
(* action is one atomic step of the store; the code between two awaits     *)
(* runs with the step that precedes it.                                    *)
(***************************************************************************)
EXTENDS Integers, Sequences, FiniteSets, TLC

\* ------------------------------------------------------------------ bounds

\* Discount rows the store may hold (createId never repeats an id).
MaxDiscounts == 2
\* Longest partnerIds list a caller supplies.
MaxLen == 2
\* Commission rows in the store.
MaxCommissions == 3
\* Pages a client walks through, and the largest pageSize it asks for.
MaxPage == 2
MaxPageSize == 2
\* Human users of the workspace a checkout is for, and invites it has saved.
MaxUsers == 1
MaxInvites == 2

\* ------------------------------------------------------------ the universe

\* A null column / an unset local.
Null == 0

Workspaces == {"ws_1", "ws_2"}
Programs == {"prog_1", "prog_2"}
Partners == {"pa", "pb", "px"}
Calls == {"c1", "c2"}

\* Program.workspaceId
ProgramWorkspace == [p \in Programs |-> IF p = "prog_1" THEN "ws_1" ELSE "ws_2"]

\* ctx.workspace.id: the callers followed here act for one workspace; prog_2
\* is a program of another one.
CallerWorkspace == "ws_1"

\* The ProgramEnrollment rows (programId, partnerId); px is enrolled nowhere.
\* No operation in scope creates or deletes an enrollment.
Enrollments == {<<"prog_1", "pa">>, <<"prog_1", "pb">>, <<"prog_2", "pa">>}

DiscountIds == 1..MaxDiscounts

Range(s) == {s[i] : i \in 1..Len(s)}

PartnerRank == [q \in Partners |-> IF q = "pa" THEN 1 ELSE IF q = "pb" THEN 2 ELSE 3]

\* The lists of at most n partner ids.  The action reads partnerIds through
\* its length and through `in` only, never through the order of its
\* elements, so one list stands for all its permutations.
ListsUpTo(n) ==
    {s \in UNION {[1..k -> Partners] : k \in 0..n} :
        \A i \in 1..(Len(s) - 1) : PartnerRank[s[i]] <= PartnerRank[s[i + 1]]}

\* parsedInput.partnerIds: absent, or a list (possibly empty, possibly with
\* repeated ids).
PartnerIdsInputs ==
    {[given |-> FALSE, ids |-> <<>>]} \cup
    {[given |-> TRUE, ids |-> s] : s \in ListsUpTo(MaxLen)}

VARIABLES
    defaultDiscountId,  \* Program.defaultDiscountId, per program
    discountId,         \* ProgramEnrollment.discountId, per enrollment row
    discounts,          \* Discount rows, as records [id, programId]
    audit,              \* per discount id: state of its discount.create event
    calls,              \* per caller: position and locals of its invocation
    before,             \* the store as the invocation running alone found it
    lookup,             \* the listDiscountPartners request in progress or answered
    commissions,        \* Commission rows in the store, by id
    listing,            \* the listCommissions request and the pages answered
    hook                \* the checkout.session.completed handler and its tasks

vars == <<defaultDiscountId, discountId, discounts, audit, calls, before,
          lookup, commissions, listing, hook>>
\* what createDiscount never touches
others == <<lookup, commissions, listing, hook>>
store == <<defaultDiscountId, discountId, discounts>>
\* store, by column
BeforeDefault == before[1]
BeforeDiscountId == before[2]
BeforeDiscounts == before[3]

\* ---------------------------------------------------- pure parts of the code

\* getProgramOrThrow({ workspaceId, programId }): the program, when the
\* workspace owns it.
ProgramOwned(workspaceId, programId) ==
    /\ programId \in Programs
    /\ ProgramWorkspace[programId] = workspaceId

\* if (partnerIds): an array, empty or not, is truthy.
PartnerIdsGiven(partnerIds) == partnerIds.given

\* prisma.programEnrollment.findMany({ where: { programId, partnerId: { in } } })
\* as the set of partners whose enrollment row is loaded.
FindEnrollments(programId, partnerIds) ==
    {q \in Partners : /\ <<programId, q>> \in Enrollments
                      /\ q \in Range(partnerIds.ids)}

\* Slip: programEnrollments.length === 0
InvalidPartnerIdsNoRows(rows, partnerIds) ==
    rows = {} /\ Len(partnerIds.ids) > 0

\* Slip: the rows are compared with the distinct ids,
\* programEnrollments.length !== new Set(partnerIds).size
InvalidPartnerIdsDeduped(rows, partnerIds) ==
    Cardinality(rows) # Cardinality(Range(partnerIds.ids))

\* programEnrollments.length !== partnerIds.length
InvalidPartnerIds(rows, partnerIds) ==
    Cardinality(rows) # Len(partnerIds.ids)

\* Slip: programEnrollments.filter((pe) => !pe.discountId)
PartnersWithoutDiscounts(programId, rows, enr) ==
    {q \in rows : enr[<<programId, q>>] = Null}

\* programEnrollments.filter((pe) => pe.discountId)
PartnersWithDiscounts(programId, rows, enr) ==
    {q \in rows : enr[<<programId, q>>] # Null}

\* Slip: the two checks of lines 46-56 in the other order.
EnrollmentErrorConflictFirst(programId, partnerIds, enr) ==
    LET programEnrollments == FindEnrollments(programId, partnerIds) IN
    IF PartnersWithDiscounts(programId, programEnrollments, enr) # {}
      THEN "Conflict"
      ELSE IF InvalidPartnerIds(programEnrollments, partnerIds)
             THEN "InvalidInput"
             ELSE ""

\* Lines 46-56: the first check the loaded rows fail, "" when they pass both.
EnrollmentError(programId, partnerIds, enr) ==
    LET programEnrollments == FindEnrollments(programId, partnerIds) IN
    IF InvalidPartnerIds(programEnrollments, partnerIds)
      THEN "InvalidInput"   \* "Invalid partner IDs provided."
      ELSE IF PartnersWithDiscounts(programId, programEnrollments, enr) # {}
             THEN "Conflict"   \* "Partners cannot belong to more than one discount."
             ELSE ""

\* Slip: program.defaultDiscountId && !isDefault
DefaultConflictNegated(programDefault, isDefault) ==
    programDefault # Null /\ ~isDefault

\* program.defaultDiscountId && isDefault
DefaultConflict(programDefault, isDefault) ==
    programDefault # Null /\ isDefault

\* partnerIds && partnerIds.length > 0
NeedsUpdateMany(partnerIds) ==
    partnerIds.given /\ Len(partnerIds.ids) > 0

\* Slip: updateMany({ where: { partnerId: { in } } }), programId forgotten.
UpdateManyAnyProgram(enr, programId, partnerIds, id) ==
    [k \in DOMAIN enr |-> IF k[2] \in Range(partnerIds.ids) THEN id ELSE enr[k]]

\* prisma.programEnrollment.updateMany({ where: { programId, partnerId: { in } },
\*                                       data: { discountId } })
UpdateManyRows(enr, programId, partnerIds, id) ==
    [k \in DOMAIN enr |->
        IF k[1] = programId /\ k[2] \in Range(partnerIds.ids) THEN id ELSE enr[k]]

UsedIds(rows) == {d.id : d \in rows}

\* createId({ prefix: "disc_" }): an id no Discount row has.
CreateId(rows) ==
    CHOOSE i \in DiscountIds \ UsedIds(rows) :
        \A j \in DiscountIds \ UsedIds(rows) : i <= j

\* --------------------------------------------------------------- the calls

IdleCall ==
    [pc |-> "idle", workspace |-> "", programId |-> "",
     partnerIds |-> [given |-> FALSE, ids |-> <<>>],
     program |-> Null, isDefault |-> TRUE, discount |-> Null,
     result |-> "", ops |-> <<>>, emitted |-> 0]

Ended(c) == calls[c].pc = "done"

\* The side effects the handler dispatches after the workspace update.
Effects == {"onboarding", "rateLimit", "domainFlag", "tokenCache"}

\* No checkout.session.completed event yet.
NoHook ==
    [pc |-> "idle", event |-> <<>>, outcome |-> "", updated |-> FALSE,
     effects |-> [e \in Effects |-> "idle"], emails |-> 0,
     obPc |-> "idle", found |-> "", userSteps |-> <<>>,
     invPc |-> "idle", invites |-> <<>>, invDel |-> "no",
     domPc |-> "idle", claim |-> "", domDel |-> "no"]

\* No listCommissions request yet.
NoListing == [status |-> "", req |-> <<>>, pages |-> <<>>]

\* No listDiscountPartners request yet.
NoLookup ==
    [pc |-> "idle", programId |-> "", discountId |-> Null, result |-> "",
     partners |-> <<>>]

Init ==
    /\ defaultDiscountId = [p \in Programs |-> Null]
    /\ discountId = [k \in Enrollments |-> Null]
    /\ discounts = {}
    /\ audit = [i \in DiscountIds |-> "none"]
    /\ calls = [c \in Calls |-> IdleCall]
    /\ before = <<>>
    /\ lookup = NoLookup
    /\ commissions = {}
    /\ listing = NoListing
    /\ hook = NoHook

\* The action is invoked: parsedInput and ctx are bound.
Invoke(c, programId, partnerIds) ==
    /\ calls[c].pc = "idle"
    /\ calls' = [calls EXCEPT ![c] =
                    [IdleCall EXCEPT !.pc = "getProgram",
                                     !.workspace = CallerWorkspace,
                                     !.programId = programId,
                                     !.partnerIds = partnerIds]]
    /\ UNCHANGED <<store, audit, others>>

\* An invocation that may overlap others.
Start(c, programId, partnerIds) ==
    /\ Invoke(c, programId, partnerIds)
    /\ UNCHANGED before

\* An invocation while no other is in progress; the store it finds is kept
\* for comparison with the store it leaves.
StartAlone(c, programId, partnerIds) ==
    /\ \A d \in Calls \ {c} : calls[d].pc = "idle"
    /\ Invoke(c, programId, partnerIds)
    /\ before' = store

\* throw: the invocation ends with the error, nothing else happens.
Throw(call, err) == [call EXCEPT !.pc = "done", !.result = err]

\* waitUntil(recordAuditLog({ ..., targets: [{ id: discount.id }] })) and the
\* return of the action: the event is handed over, not awaited.
EmitAudit(call) ==
    [call EXCEPT !.pc = "done", !.result = "ok", !.emitted = @ + 1]

AuditAfterEmit(a, call) ==
    [a EXCEPT ![call.discount] = "pending"]

\* await getProgramOrThrow(...); without partnerIds the default check of
\* line 61 follows at once.
GetProgram(c) ==
    LET call == calls[c]
        read == [call EXCEPT !.ops = Append(@, "program.find")]
    IN
    /\ call.pc = "getProgram"
    /\ IF ~ProgramOwned(call.workspace, call.programId)
         THEN calls' = [calls EXCEPT ![c] = Throw(read, "NotFound")]
         ELSE LET loaded == [read EXCEPT
                                !.program = defaultDiscountId[call.programId]]
              IN IF PartnerIdsGiven(call.partnerIds)
                   THEN calls' = [calls EXCEPT ![c] =
                                    [loaded EXCEPT !.pc = "findMany"]]
                   ELSE IF DefaultConflict(loaded.program, loaded.isDefault)
                          THEN calls' = [calls EXCEPT ![c] =
                                            Throw(loaded, "Conflict")]
                          ELSE calls' = [calls EXCEPT ![c] =
                                            [loaded EXCEPT !.pc = "create"]]
    /\ UNCHANGED <<store, audit, before, others>>

\* await prisma.programEnrollment.findMany(...), the two checks on its rows,
\* isDefault = false and the default check of line 61.
FindMany(c) ==
    LET call == calls[c]
        read == [call EXCEPT !.ops = Append(@, "programEnrollment.findMany")]
        err == EnrollmentError(call.programId, call.partnerIds, discountId)
        scoped == [read EXCEPT !.isDefault = FALSE]
    IN
    /\ call.pc = "findMany"
    /\ calls' = [calls EXCEPT ![c] =
         IF err # ""
           THEN Throw(read, err)
           ELSE IF DefaultConflict(scoped.program, scoped.isDefault)
                  THEN Throw(scoped, "Conflict")
                  ELSE [scoped EXCEPT !.pc = "create"]]
    /\ UNCHANGED <<store, audit, before, others>>

\* Slip: the audit event and the return straight after the insert.
AfterCreateAuditFirst(call) == EmitAudit(call)

\* What follows the Discount insert: the enrollment update, else the program
\* update, else the audit event and the return.
AfterCreate(call) ==
    IF NeedsUpdateMany(call.partnerIds)
      THEN [call EXCEPT !.pc = "updateMany"]
      ELSE IF call.isDefault
             THEN [call EXCEPT !.pc = "updateProgram"]
             ELSE EmitAudit(call)

\* await prisma.discount.create({ data: { id: createId(...), programId, ... } })
Create(c) ==
    LET call == calls[c]
        id == CreateId(discounts)
        made == [call EXCEPT !.ops = Append(@, "discount.create"),
                             !.discount = id]
        next == AfterCreate(made)
    IN
    /\ call.pc = "create"
    /\ DiscountIds \ UsedIds(discounts) # {}
    /\ discounts' = discounts \cup {[id |-> id, programId |-> call.programId]}
    /\ calls' = [calls EXCEPT ![c] = next]
    /\ audit' = IF next.pc = "done" THEN AuditAfterEmit(audit, next) ELSE audit
    /\ UNCHANGED <<defaultDiscountId, discountId, before, others>>

\* What follows the enrollment update: the program update when isDefault,
\* else the audit event and the return.
AfterUpdateMany(call) ==
    IF call.isDefault
      THEN [call EXCEPT !.pc = "updateProgram"]
      ELSE EmitAudit(call)

\* await prisma.programEnrollment.updateMany(...)
UpdateMany(c) ==
    LET call == calls[c]
        wrote == [call EXCEPT
                     !.ops = Append(@, "programEnrollment.updateMany")]
        next == AfterUpdateMany(wrote)
    IN
    /\ call.pc = "updateMany"
    /\ discountId' = UpdateManyRows(discountId, call.programId,
                                    call.partnerIds, call.discount)
    /\ calls' = [calls EXCEPT ![c] = next]
    /\ audit' = IF next.pc = "done" THEN AuditAfterEmit(audit, next) ELSE audit
    /\ UNCHANGED <<defaultDiscountId, discounts, before, others>>

\* await prisma.program.update({ where: { id: programId },
\*                              data: { defaultDiscountId: discount.id } })
UpdateProgram(c) ==
    LET call == calls[c]
        wrote == [call EXCEPT !.ops = Append(@, "program.update")]
        next == EmitAudit(wrote)
    IN
    /\ call.pc = "updateProgram"
    /\ defaultDiscountId' =
           [defaultDiscountId EXCEPT ![call.programId] = call.discount]
    /\ calls' = [calls EXCEPT ![c] = next]
    /\ audit' = AuditAfterEmit(audit, next)
    /\ UNCHANGED <<discountId, discounts, before, others>>

\* One of the three writes rejects (the store is unreachable, the statement
\* times out): the action throws what prisma threw; nothing is undone.
StoreFails(c) ==
    /\ calls[c].pc \in {"create", "updateMany", "updateProgram"}
    /\ calls' = [calls EXCEPT ![c] = Throw(calls[c], "StoreError")]
    /\ UNCHANGED <<store, audit, before, others>>

\* The caller has its answer; the slot is free for the next invocation.
Return(c) ==
    /\ calls[c].pc = "done"
    /\ calls' = [calls EXCEPT ![c] = IdleCall]
    /\ before' = <<>>
    /\ UNCHANGED <<store, audit, others>>

\* The promise handed to waitUntil fulfils: the event is in the audit log.
AuditDelivered(i) ==
    /\ audit[i] = "pending"
    /\ audit' = [audit EXCEPT ![i] = "delivered"]
    /\ UNCHANGED <<store, calls, before, others>>

\* The promise handed to waitUntil rejects: the event is lost.
AuditFailed(i) ==
    /\ audit[i] = "pending"
    /\ audit' = [audit EXCEPT ![i] = "failed"]
    /\ UNCHANGED <<store, calls, before, others>>

Step(c) ==
    \/ GetProgram(c)
    \/ FindMany(c)
    \/ Create(c)
    \/ UpdateMany(c)
    \/ UpdateProgram(c)
    \/ Return(c)

AuditStep ==
    \E i \in DiscountIds : AuditDelivered(i) \/ AuditFailed(i)

\* Invocations overlap freely.
Next ==
    \/ \E c \in Calls, p \in Programs, ids \in PartnerIdsInputs :
          Start(c, p, ids)
    \/ \E c \in Calls : Step(c)
    \/ AuditStep

Spec == Init /\ [][Next]_vars

\* One invocation at a time.
NextSeq ==
    \/ \E c \in Calls, p \in Programs, ids \in PartnerIdsInputs :
          StartAlone(c, p, ids)
    \/ \E c \in Calls : Step(c)
    \/ AuditStep

SpecSeq == Init /\ [][NextSeq]_vars

\* One invocation at a time, over a store whose writes may fail.
NextFault ==
    \/ \E c \in Calls, p \in Programs, ids \in PartnerIdsInputs :
          StartAlone(c, p, ids)
    \/ \E c \in Calls : Step(c)
    \/ \E c \in Calls : StoreFails(c)
    \/ AuditStep

SpecFault == Init /\ [][NextFault]_vars

\* ------------------------------------------------- listDiscountPartners
\* GET /api/programs/[programId]/discounts/partners

\* workspace.defaultProgramId
WorkspaceDefaultProgram ==
    [w \in Workspaces |-> IF w = "ws_1" THEN "prog_1" ELSE "prog_2"]

\* The ProgramEnrollment rows in the order of their insertion.
EnrollmentRows == <<<<"prog_1", "pa">>, <<"prog_1", "pb">>, <<"prog_2", "pa">>>>

\* getDiscountOrThrow({ programId, discountId }): the discount is a row of
\* the program.
DiscountInProgram(rows, programId, id) ==
    [id |-> id, programId |-> programId] \in rows

\* Slip: findMany({ where: { discountId: { not: null } } })
PartnersOfAnyDiscount(enr, id) ==
    LET Has(k) == enr[k] # Null
        found == SelectSeq(EnrollmentRows, Has)
    IN [i \in 1..Len(found) |-> found[i][2]]

\* prisma.programEnrollment.findMany({ where: { discountId },
\*   select: { partner } }) and partners.map(({ partner }) => partner)
PartnersOfDiscount(enr, id) ==
    LET References(k) == enr[k] = id
        found == SelectSeq(EnrollmentRows, References)
    IN [i \in 1..Len(found) |-> found[i][2]]

\* The request arrives; the program check of lines 12-17 and
\* await getDiscountOrThrow(...) of lines 21-24.
LookupDiscount(programId, id) ==
    /\ lookup.pc = "idle"
    /\ lookup' =
         LET req == [NoLookup EXCEPT !.programId = programId, !.discountId = id]
         IN IF programId # WorkspaceDefaultProgram[CallerWorkspace]
              THEN [req EXCEPT !.pc = "done", !.result = "NotFound"]
              ELSE IF ~DiscountInProgram(discounts, programId, id)
                     THEN [req EXCEPT !.pc = "done", !.result = "NotFound"]
                     ELSE [req EXCEPT !.pc = "findMany"]
    /\ UNCHANGED <<store, audit, calls, before, commissions, listing, hook>>

\* await prisma.programEnrollment.findMany(...) of lines 26-40 and the
\* response of line 42.
LookupPartners ==
    /\ lookup.pc = "findMany"
    /\ lookup' = [lookup EXCEPT
                     !.pc = "done", !.result = "ok",
                     !.partners = PartnersOfDiscount(discountId, lookup.discountId)]
    /\ UNCHANGED <<store, audit, calls, before, commissions, listing, hook>>

\* The response of line 42 has been sent.
LookupAnswered ==
    /\ lookup.pc = "done"
    /\ lookup' = NoLookup
    /\ UNCHANGED <<store, audit, calls, before, commissions, listing, hook>>

\* The caller whose createDiscount invocations, one at a time, the lookups
\* run among.
LookupCaller == "c1"

\* createDiscount invocations one at a time, and partner lookups among
\* their steps (also between the two reads of a lookup); an answer is
\* sent before the store moves on.
NextLookup ==
    \/ /\ lookup.pc # "done"
       /\ \E p \in Programs, ids \in PartnerIdsInputs :
             StartAlone(LookupCaller, p, ids)
    \/ lookup.pc # "done" /\ Step(LookupCaller)
    \/ lookup.pc # "done" /\ AuditStep
    \/ \E p \in Programs, i \in DiscountIds : LookupDiscount(p, i)
    \/ LookupPartners
    \/ LookupAnswered

SpecLookup == Init /\ [][NextLookup]_vars

\* ------------------------------------------------------- listCommissions
\* GET /api/commissions

\* A filter the request does not supply (undefined in the where clause).
Omitted == "-"

\* The Commission rows the upstream process may have produced.  Rows 1 and 2
\* agree on createdAt and on earnings; rows 5 and 6 earn nothing; row 7 is
\* of another workspace's program.
CommissionPool ==
    LET Row(p, q, st, ty, cu, po, e, t) ==
            [programId |-> p, partnerId |-> q, status |-> st, type |-> ty,
             customerId |-> cu, payoutId |-> po, earnings |-> e, createdAt |-> t]
    IN << Row("prog_1", "pa", "pending", "sale", "cus_1", "po_1", 5, 2),
          Row("prog_1", "pb", "pending", "sale", "cus_1", "po_1", 5, 2),
          Row("prog_1", "pa", "paid", "lead", "cus_1", "po_1", 7, 1),
          Row("prog_1", "pa", "pending", "sale", "cus_2", "po_2", 3, 1),
          Row("prog_1", "pa", "pending", "sale", "cus_1", "po_1", 0, 2),
          Row("prog_1", "pa", "pending", "sale", "cus_1", "po_1", -2, 2),
          Row("prog_2", "pa", "pending", "sale", "cus_1", "po_1", 5, 2) >>

CommissionIds == 1..Len(CommissionPool)

\* The stores of at most MaxCommissions rows.
CommissionTables ==
    {t \in SUBSET CommissionIds : Cardinality(t) <= MaxCommissions}

\* getCommissionsQuerySchema.parse(searchParams) and getStartEndDates(...):
\* the parsed request, its interval resolved to startDate and endDate.
ListingRequests ==
    [programId : Programs,
     status : {Omitted, "pending"}, type : {Omitted, "sale"},
     customerId : {Omitted, "cus_1"}, payoutId : {Omitted, "po_1"},
     partnerId : {Omitted, "pa"},
     startDate : {1, 2}, endDate : {2},
     pageSize : 1..MaxPageSize,
     sortBy : {"createdAt", "earnings"}, sortOrder : {"asc", "desc"}]

\* One field of the where clause: equality, or nothing when undefined.
FieldMatches(value, wanted) == wanted = Omitted \/ value = wanted

\* Slip: the earnings condition left out of the where clause.
WhereAnyEarnings(row, req) ==
    /\ row.programId = req.programId
    /\ FieldMatches(row.partnerId, req.partnerId)
    /\ FieldMatches(row.status, req.status)
    /\ FieldMatches(row.type, req.type)
    /\ FieldMatches(row.customerId, req.customerId)
    /\ FieldMatches(row.payoutId, req.payoutId)
    /\ row.createdAt >= req.startDate /\ row.createdAt <= req.endDate

\* Slip: programId left out of the where clause.
WhereAnyProgram(row, req) ==
    /\ row.earnings > 0
    /\ FieldMatches(row.partnerId, req.partnerId)
    /\ FieldMatches(row.status, req.status)
    /\ FieldMatches(row.type, req.type)
    /\ FieldMatches(row.customerId, req.customerId)
    /\ FieldMatches(row.payoutId, req.payoutId)
    /\ row.createdAt >= req.startDate /\ row.createdAt <= req.endDate

\* The where clause of lines 45-59.
Where(row, req) ==
    /\ row.earnings > 0
    /\ row.programId = req.programId
    /\ FieldMatches(row.partnerId, req.partnerId)
    /\ FieldMatches(row.status, req.status)
    /\ FieldMatches(row.type, req.type)
    /\ FieldMatches(row.customerId, req.customerId)
    /\ FieldMatches(row.payoutId, req.payoutId)
    /\ row.createdAt >= req.startDate /\ row.createdAt <= req.endDate

\* orderBy: { [sortBy]: sortOrder }: a may come before b.
MayPrecede(a, b, req) ==
    LET ka == IF req.sortBy = "createdAt" THEN a.createdAt ELSE a.earnings
        kb == IF req.sortBy = "createdAt" THEN b.createdAt ELSE b.earnings
    IN IF req.sortOrder = "asc" THEN ka <= kb ELSE ka >= kb

\* The orders in which the store may hand out the rows that match: sorted
\* by the one requested field, rows that agree on it in any order, and not
\* necessarily the same order from one statement to the next.
Orders(table, req) ==
    LET ids == {i \in table : Where(CommissionPool[i], req)}
        n == Cardinality(ids)
    IN {o \in [1..n -> ids] :
          /\ \A i, j \in 1..n : i # j => o[i] # o[j]
          /\ \A i \in 1..(n - 1) :
                MayPrecede(CommissionPool[o[i]], CommissionPool[o[i + 1]], req)}

\* skip: (page - 1) * pageSize, take: pageSize
PageOf(order, page, pageSize) ==
    SubSeq(order, (page - 1) * pageSize + 1,
           IF page * pageSize < Len(order) THEN page * pageSize ELSE Len(order))

\* programId !== workspace.defaultProgramId
ProgramMismatch(programId, workspaceId) ==
    programId # WorkspaceDefaultProgram[workspaceId]

\* A client asks for page 1 of a listing: lines 13-72.
ListCommissions(req) ==
    /\ listing = NoListing
    /\ IF ProgramMismatch(req.programId, CallerWorkspace)
         THEN listing' = [status |-> "not_found", req |-> req, pages |-> <<>>]
         ELSE \E order \in Orders(commissions, req) :
                listing' = [status |-> "ok", req |-> req,
                            pages |-> <<PageOf(order, 1, req.pageSize)>>]
    /\ UNCHANGED <<store, audit, calls, before, lookup, commissions, hook>>

\* The client asks for the next page of the same listing.
ListNextPage ==
    /\ listing.status = "ok"
    /\ Len(listing.pages) < MaxPage
    /\ \E order \in Orders(commissions, listing.req) :
          listing' = [listing EXCEPT
                        !.pages = Append(@, PageOf(order, Len(@) + 1,
                                                   listing.req.pageSize))]
    /\ UNCHANGED <<store, audit, calls, before, lookup, commissions, hook>>

\* Any store of commissions; no createDiscount, no lookup.
InitCommissions ==
    /\ defaultDiscountId = [p \in Programs |-> Null]
    /\ discountId = [k \in Enrollments |-> Null]
    /\ discounts = {}
    /\ audit = [i \in DiscountIds |-> "none"]
    /\ calls = [c \in Calls |-> IdleCall]
    /\ before = <<>>
    /\ lookup = NoLookup
    /\ commissions \in CommissionTables
    /\ listing = NoListing
    /\ hook = NoHook

NextCommissions ==
    \/ \E req \in ListingRequests : ListCommissions(req)
    \/ ListNextPage

SpecCommissions == InitCommissions /\ [][NextCommissions]_vars

\* ------------------------------------------- checkoutSessionCompleted
\* (ee)/api/stripe/webhook/checkout-session-completed.ts

\* The event and what it finds: the fields of the checkout session the
\* handler reads, whether the price of the subscription maps to a plan, the
\* human users of the workspace, and what onboarding saved in redis.
HookEvents ==
    [mode : {"subscription", "setup"},
     clientReferenceId : BOOLEAN, customer : BOOLEAN, subscription : BOOLEAN,
     planKnown : BOOLEAN,
     users : 0..MaxUsers, savedInvites : 0..MaxInvites, savedDomain : BOOLEAN]

Settled(status) == status \in {"fulfilled", "rejected"}
Outcome(ok) == IF ok THEN "fulfilled" ELSE "rejected"

\* Slip: Promise.all: rejects with the first rejection.
FirstRejection(statuses) ==
    IF \E i \in DOMAIN statuses : statuses[i] = "rejected" THEN "raised"
    ELSE IF \A i \in DOMAIN statuses : statuses[i] = "fulfilled" THEN "returned"
    ELSE ""

\* await Promise.allSettled([...]) of lines 105-144: "" while a promise is
\* pending, then the handler goes on; it never rejects.
AllSettled(statuses) ==
    IF \A i \in DOMAIN statuses : Settled(statuses[i]) THEN "returned" ELSE ""

\* Slip: Promise.race over the invites.
AnyInviteSettled(statuses) ==
    \E i \in DOMAIN statuses : Settled(statuses[i])

\* await Promise.allSettled(invites.map(...)) of lines 180-188 is over.
InvitesSettled(statuses) ==
    \A i \in DOMAIN statuses : Settled(statuses[i])

\* return, or an exception that leaves the handler.
HookEnds(h, outcome) == [h EXCEPT !.pc = "done", !.outcome = outcome]

\* Lines 16-32: the event arrives; setup sessions and sessions without
\* client_reference_id or customer are dropped (the latter after log()).
Receive(event) ==
    /\ hook.pc = "idle"
    /\ hook' =
         LET h == [NoHook EXCEPT !.event = event] IN
         IF event.mode = "setup"
           THEN HookEnds(h, "returned")
           ELSE IF ~event.clientReferenceId \/ ~event.customer
                  THEN HookEnds(h, "returned")
                  ELSE [h EXCEPT !.pc = "retrieve"]
    /\ UNCHANGED <<store, audit, calls, before, lookup, commissions, listing>>

\* Lines 34-46: await stripe.subscriptions.retrieve(checkoutSession
\* .subscription as string) rejects when the session has no subscription:
\* nothing guards the call and nothing catches the rejection.  A price that
\* maps to no plan is logged and the handler returns.
Retrieve ==
    /\ hook.pc = "retrieve"
    /\ hook' =
         IF ~hook.event.subscription
           THEN HookEnds(hook, "raised")
           ELSE IF ~hook.event.planKnown
                  THEN HookEnds(hook, "returned")
                  ELSE [hook EXCEPT !.pc = "update"]
    /\ UNCHANGED <<store, audit, calls, before, lookup, commissions, listing>>

\* Lines 105-144: the array handed to Promise.allSettled is built:
\* completeOnboarding is called, one email per user is scheduled on the
\* limiter, the three other promises are started.
Dispatch(h) ==
    [h EXCEPT !.pc = "join",
              !.effects = [e \in Effects |-> "running"],
              !.emails = h.event.users,
              !.obPc = "findUnique"]

\* Slip: the rejection of the update is swallowed and the handler goes on.
AfterUpdateRegardless(h, ok) ==
    Dispatch([h EXCEPT !.updated = ok])

\* What follows await prisma.project.update(...): the dispatch, or the
\* rejection leaving the handler.
AfterUpdate(h, ok) ==
    IF ok THEN Dispatch([h EXCEPT !.updated = TRUE])
          ELSE HookEnds(h, "raised")

\* Lines 56-97: await prisma.project.update(...) sets stripeId, plan, the
\* limits and paymentFailedAt: null, or rejects.
UpdateWorkspace(ok) ==
    /\ hook.pc = "update"
    /\ hook' = AfterUpdate(hook, ok)
    /\ UNCHANGED <<store, audit, calls, before, lookup, commissions, listing>>

\* Lines 117-136: prisma.restrictedToken.updateMany or
\* prisma.defaultDomains.update settles.
EffectSettles(e, ok) ==
    /\ e \in {"rateLimit", "domainFlag"}
    /\ hook.effects[e] = "running"
    /\ hook' = [hook EXCEPT !.effects[e] = Outcome(ok)]
    /\ UNCHANGED <<store, audit, calls, before, lookup, commissions, listing>>

\* Lines 138-143: the promise tokenCache.expireMany returned settles.
TokenCacheSettles(ok) ==
    /\ hook.effects["tokenCache"] = "running"
    /\ hook' = [hook EXCEPT !.effects["tokenCache"] = Outcome(ok)]
    /\ UNCHANGED <<store, audit, calls, before, lookup, commissions, listing>>

\* Lines 154-191 of completeOnboarding: await prisma.project.findUnique(...)
\* finds the workspace, finds none, or rejects.  Found: the onboarding-step
\* writes and the two saved-data tasks start.
FindWorkspace(answer) ==
    /\ hook.obPc = "findUnique"
    /\ hook' =
         IF answer = "rejected"
           THEN [hook EXCEPT !.obPc = "done", !.effects["onboarding"] = "rejected"]
         ELSE IF answer = "none"
           THEN [hook EXCEPT !.obPc = "done", !.found = "no",
                             !.effects["onboarding"] = "fulfilled"]
         ELSE [hook EXCEPT !.obPc = "join", !.found = "yes",
                           !.userSteps = [u \in 1..hook.event.users |-> "running"],
                           !.invPc = "get", !.domPc = "get"]
    /\ UNCHANGED <<store, audit, calls, before, lookup, commissions, listing>>

\* redis.set(`onboarding-step:${id}`, "completed") settles.
UserStepSettles(u, ok) ==
    /\ u \in DOMAIN hook.userSteps
    /\ hook.userSteps[u] = "running"
    /\ hook' = [hook EXCEPT !.userSteps[u] = Outcome(ok)]
    /\ UNCHANGED <<store, audit, calls, before, lookup, commissions, listing>>

\* Lines 174-188: await redis.get(`invites:${workspaceId}`); without saved
\* invites the task is over, else inviteUser is called for each of them.
GetInvites(ok) ==
    /\ hook.invPc = "get"
    /\ hook' =
         IF ~ok THEN [hook EXCEPT !.invPc = "rejected"]
         ELSE IF hook.event.savedInvites = 0
           THEN [hook EXCEPT !.invPc = "fulfilled"]
         ELSE [hook EXCEPT !.invPc = "inviting",
                           !.invites = [i \in 1..hook.event.savedInvites |-> "running"]]
    /\ UNCHANGED <<store, audit, calls, before, lookup, commissions, listing>>

\* inviteUser({ email, role, workspace }) settles.
InviteSettles(i, ok) ==
    /\ hook.invPc = "inviting"
    /\ i \in DOMAIN hook.invites
    /\ hook.invites[i] = "running"
    /\ hook' = [hook EXCEPT !.invites[i] = Outcome(ok)]
    /\ UNCHANGED <<store, audit, calls, before, lookup, commissions, listing>>

\* Line 190: await redis.del(`invites:${workspaceId}`) after the invites.
DeleteInvites(ok) ==
    /\ hook.invPc = "inviting"
    /\ InvitesSettled(hook.invites)
    /\ hook' = [hook EXCEPT !.invPc = Outcome(ok),
                            !.invDel = IF ok THEN "deleted" ELSE "failed"]
    /\ UNCHANGED <<store, audit, calls, before, lookup, commissions, listing>>

\* Lines 195-199: await redis.get(`onboarding-domain:${workspaceId}`).
GetDomain(ok) ==
    /\ hook.domPc = "get"
    /\ hook' =
         IF ~ok THEN [hook EXCEPT !.domPc = "rejected"]
         ELSE IF ~hook.event.savedDomain
           THEN [hook EXCEPT !.domPc = "fulfilled"]
         ELSE [hook EXCEPT !.domPc = "claim"]
    /\ UNCHANGED <<store, audit, calls, before, lookup, commissions, listing>>

\* Lines 201-214: await claimDotLinkDomain(...); its rejection is caught.
ClaimDomain(ok) ==
    /\ hook.domPc = "claim"
    /\ hook' =
         IF ok THEN [hook EXCEPT !.domPc = "del", !.claim = "ok"]
               ELSE [hook EXCEPT !.domPc = "fulfilled", !.claim = "failed"]
    /\ UNCHANGED <<store, audit, calls, before, lookup, commissions, listing>>

\* Line 207: await redis.del(`onboarding-domain:${workspaceId}`), inside
\* the same try.
DeleteDomain(ok) ==
    /\ hook.domPc = "del"
    /\ hook' = [hook EXCEPT !.domPc = "fulfilled",
                            !.domDel = IF ok THEN "deleted" ELSE "failed"]
    /\ UNCHANGED <<store, audit, calls, before, lookup, commissions, listing>>

\* Lines 168-216: await Promise.allSettled([...]) of completeOnboarding is
\* over and completeOnboarding returns.
OnboardingJoins ==
    /\ hook.obPc = "join"
    /\ AllSettled(hook.userSteps \o <<hook.invPc, hook.domPc>>) # ""
    /\ hook' = [hook EXCEPT !.obPc = "done", !.effects["onboarding"] = "fulfilled"]
    /\ UNCHANGED <<store, audit, calls, before, lookup, commissions, listing>>

\* The statuses of the dispatched promises, in the order of the array.
EffectStatuses(h) ==
    <<h.effects["onboarding"], h.effects["rateLimit"],
      h.effects["domainFlag"], h.effects["tokenCache"]>>

\* Line 105: await Promise.allSettled([...]) is over; the handler returns.
HookJoins ==
    /\ hook.pc = "join"
    /\ AllSettled(EffectStatuses(hook)) # ""
    /\ hook' = HookEnds(hook, AllSettled(EffectStatuses(hook)))
    /\ UNCHANGED <<store, audit, calls, before, lookup, commissions, listing>>

NextHook ==
    \/ \E event \in HookEvents : Receive(event)
    \/ Retrieve
    \/ \E ok \in BOOLEAN : UpdateWorkspace(ok)
    \/ \E e \in {"rateLimit", "domainFlag"}, ok \in BOOLEAN : EffectSettles(e, ok)
    \/ \E ok \in BOOLEAN : TokenCacheSettles(ok)
    \/ \E answer \in {"found", "none", "rejected"} : FindWorkspace(answer)
    \/ \E u \in 1..MaxUsers, ok \in BOOLEAN : UserStepSettles(u, ok)
    \/ \E ok \in BOOLEAN : GetInvites(ok)
    \/ \E i \in 1..MaxInvites, ok \in BOOLEAN : InviteSettles(i, ok)
    \/ \E ok \in BOOLEAN : DeleteInvites(ok)
    \/ \E ok \in BOOLEAN : GetDomain(ok)
    \/ \E ok \in BOOLEAN : ClaimDomain(ok)
    \/ \E ok \in BOOLEAN : DeleteDomain(ok)
    \/ OnboardingJoins
    \/ HookJoins

SpecHook == Init /\ [][NextHook]_vars

TypeOK ==
    /\ defaultDiscountId \in [Programs -> DiscountIds \cup {Null}]
    /\ discountId \in [Enrollments -> DiscountIds \cup {Null}]
    /\ \A d \in discounts : d.id \in DiscountIds /\ d.programId \in Programs
    /\ audit \in [DiscountIds -> {"none", "pending", "delivered", "failed"}]

\* ------------------------------------------------------------ the claims

\* Vocabulary of the claims, for an invocation c.
Owned(c) == ProgramOwned(calls[c].workspace, calls[c].programId)
Named(c) == Range(calls[c].partnerIds.ids)
Given(c) == calls[c].partnerIds.given
Succeeded(c) == Ended(c) /\ calls[c].result = "ok"
\* every listed id is a different partner enrolled in the program
AllEnrolledOnce(c) ==
    /\ Cardinality(Named(c)) = Len(calls[c].partnerIds.ids)
    /\ \A q \in Named(c) : <<calls[c].programId, q>> \in Enrollments
\* listed partners whose enrollment holds a discount that is not c's own
Taken(c) ==
    {q \in Named(c) :
        /\ <<calls[c].programId, q>> \in Enrollments
        /\ discountId[<<calls[c].programId, q>>] \notin {Null, calls[c].discount}}
\* the assignment of c's discount is in the store
Applied(c) ==
    IF Given(c)
      THEN \A q \in Named(c) :
              discountId[<<calls[c].programId, q>>] = calls[c].discount
      ELSE defaultDiscountId[calls[c].programId] = calls[c].discount

\* C1: two overlapping invocations on one program whose partnerIds share a
\* partner never both succeed (one succeeds, the other fails with Conflict).
C1_NeverTwoSuccesses ==
    \A c, d \in Calls :
        (/\ c # d
         /\ Succeeded(c) /\ Succeeded(d)
         /\ calls[c].programId = calls[d].programId
         /\ Given(c) /\ Given(d))
        => Named(c) \cap Named(d) = {}

\* C2 as stated: an invocation naming a partner that an earlier invocation
\* gave a discount fails with Conflict.
C2_IntersectingIsConflict ==
    \A c \in Calls :
        (Ended(c) /\ Owned(c) /\ Given(c) /\ Taken(c) # {})
        => calls[c].result = "Conflict"

\* C2 as amended: invocations one after the other.  One that names a partner
\* who already has a discount fails and leaves the store as it found it, with
\* Conflict when every listed id is a different enrolled partner and with
\* InvalidInput otherwise; one over enrolled partners none of whom has a
\* discount succeeds and they reference its discount; no discountId that was
\* set is overwritten.
C2_SequentialExclusive ==
    \A c \in Calls :
        (Ended(c) /\ Owned(c) /\ Given(c)) =>
            /\ Taken(c) # {} =>
                  /\ calls[c].result =
                        (IF AllEnrolledOnce(c) THEN "Conflict" ELSE "InvalidInput")
                  /\ store = before
            /\ (Taken(c) = {} /\ AllEnrolledOnce(c)) =>
                  /\ calls[c].result = "ok"
                  /\ Applied(c)
            /\ \A k \in Enrollments :
                  BeforeDiscountId[k] # Null => discountId[k] = BeforeDiscountId[k]

\* C2 witness: a partner of an earlier discount is named again, with every
\* listed id enrolled, and the invocation has ended.
C2_Witness ==
    \E c \in Calls :
        /\ Ended(c) /\ Owned(c) /\ Given(c)
        /\ Taken(c) # {} /\ AllEnrolledOnce(c)
        /\ Cardinality(Named(c)) = 2

\* C5: an invocation with partnerIds = [] behaves as one without partnerIds:
\* on success the program's defaultDiscountId is its discount, otherwise it
\* failed with Conflict because a default was set.
C5_EmptyListIsDefault ==
    \A c \in Calls :
        (Ended(c) /\ Owned(c) /\ Given(c) /\ calls[c].partnerIds.ids = <<>>) =>
            IF calls[c].result = "ok"
              THEN defaultDiscountId[calls[c].programId] = calls[c].discount
              ELSE /\ calls[c].result = "Conflict"
                   /\ defaultDiscountId[calls[c].programId] # Null

\* C6: an invocation that has ended left its Discount row only together with
\* the row's assignment.
C6_AllOrNothing ==
    \A c \in Calls :
        (Ended(c) /\ calls[c].discount # Null) => Applied(c)

\* C7: once the invocations have ended, every Discount created without
\* partnerIds is the one its program's defaultDiscountId points to.
C7_DefaultIsThePointer ==
    (\A c \in Calls : Ended(c)) =>
        \A c \in Calls :
            (Succeeded(c) /\ ~Given(c)) =>
                defaultDiscountId[calls[c].programId] = calls[c].discount

\* C3: invocations one after the other, without partnerIds.  With the
\* program's defaultDiscountId set the invocation fails with Conflict and
\* leaves the store as it found it; with none it succeeds, inserts exactly one
\* Discount row and points defaultDiscountId at it.  No invocation changes a
\* defaultDiscountId that was set.
C3_DefaultOnce ==
    \A c \in Calls :
        Ended(c) =>
            /\ (Owned(c) /\ ~Given(c)) =>
                  IF BeforeDefault[calls[c].programId] # Null
                    THEN /\ calls[c].result = "Conflict"
                         /\ store = before
                    ELSE /\ calls[c].result = "ok"
                         /\ calls[c].discount \notin UsedIds(BeforeDiscounts)
                         /\ discounts = BeforeDiscounts \cup
                               {[id |-> calls[c].discount,
                                 programId |-> calls[c].programId]}
                         /\ defaultDiscountId =
                               [BeforeDefault EXCEPT
                                   ![calls[c].programId] = calls[c].discount]
            /\ \A p \in Programs :
                  BeforeDefault[p] # Null => defaultDiscountId[p] = BeforeDefault[p]

\* C3 witness: an invocation without partnerIds found a default discount
\* and has ended.
C3_Witness ==
    \E c \in Calls :
        /\ Ended(c) /\ Owned(c) /\ ~Given(c)
        /\ BeforeDefault[calls[c].programId] # Null

\* C4: an invocation on the caller's program whose partnerIds names a partner
\* without enrollment there fails with InvalidInput, the store is as the
\* invocation found it, and it emitted no audit event.
C4_UnenrolledRejected ==
    \A c \in Calls :
        (/\ Ended(c) /\ Owned(c) /\ Given(c)
         /\ \E q \in Named(c) : <<calls[c].programId, q>> \notin Enrollments)
        => /\ calls[c].result = "InvalidInput"
           /\ store = before
           /\ calls[c].discount = Null
           /\ calls[c].emitted = 0

\* C4 witness: an ended invocation that named an enrolled and an unenrolled
\* partner, on a store that already held a discount.
C4_Witness ==
    \E c \in Calls :
        /\ Ended(c) /\ Owned(c) /\ Given(c)
        /\ \E q \in Named(c) : <<calls[c].programId, q>> \notin Enrollments
        /\ \E q \in Named(c) : <<calls[c].programId, q>> \in Enrollments
        /\ discounts # {}

\* C8: the checks apply in the order ownership, enrollment, exclusivity,
\* default.  An invocation on a program of another workspace fails with
\* NotFound having issued nothing but the program lookup; one naming an
\* unenrolled partner and a partner that has a discount fails with
\* InvalidInput; Conflict is the answer only when the earlier checks pass.
C8_ValidationOrder ==
    \A c \in Calls :
        Ended(c) =>
            /\ ~Owned(c) =>
                  /\ calls[c].result = "NotFound"
                  /\ calls[c].ops = <<"program.find">>
                  /\ store = before
                  /\ calls[c].emitted = 0
            /\ (/\ Owned(c) /\ Given(c)
                /\ \E q \in Named(c) : <<calls[c].programId, q>> \notin Enrollments
                /\ Taken(c) # {})
               => calls[c].result = "InvalidInput"
            /\ calls[c].result = "Conflict" =>
                  (Owned(c) /\ (Given(c) => AllEnrolledOnce(c)))
            /\ calls[c].result = "InvalidInput" => Owned(c)

\* C8 witness: an ended invocation that named an unenrolled partner together
\* with a partner that had a discount.
C8_Witness ==
    \E c \in Calls :
        /\ Ended(c) /\ Owned(c) /\ Given(c)
        /\ \E q \in Named(c) : <<calls[c].programId, q>> \notin Enrollments
        /\ Taken(c) # {}

\* The store operations a successful invocation issues, in order.
ExpectedOps(c) ==
    <<"program.find">> \o
    (IF Given(c) THEN <<"programEnrollment.findMany">> ELSE <<>>) \o
    <<"discount.create">> \o
    (IF Given(c) /\ Named(c) # {} THEN <<"programEnrollment.updateMany">>
     ELSE IF ~Given(c) THEN <<"program.update">> ELSE <<>>)

\* The state part of C9: what an ended invocation has emitted, and for which
\* Discount rows an event exists.
C9_EmittedOnceAfterWrites ==
    /\ \A c \in Calls :
          Ended(c) =>
            IF calls[c].result = "ok"
              THEN /\ calls[c].emitted = 1
                   /\ audit[calls[c].discount] \in {"pending", "delivered", "failed"}
                   /\ [id |-> calls[c].discount,
                       programId |-> calls[c].programId] \in discounts
                   /\ calls[c].ops = ExpectedOps(c)
                   /\ Applied(c)
              ELSE /\ calls[c].emitted = 0
                   /\ calls[c].discount # Null => audit[calls[c].discount] = "none"
    /\ \A i \in DiscountIds : audit[i] # "none" => i \in UsedIds(discounts)

\* C9: an invocation that has run its writes emitted the discount.create
\* event exactly once, for the Discount it inserted, after the insert and the
\* update that follows it; a rejected or failed invocation emitted none; and
\* the delivery or loss of an event changes no row and no outcome.
C9_AuditBestEffort ==
    /\ []C9_EmittedOnceAfterWrites
    /\ [][audit' # audit =>
            \/ store' = store /\ calls' = calls
            \/ \E c \in Calls : ~Ended(c) /\ Succeeded(c)']_vars

\* C9 witness: an invocation succeeded and its audit event was lost.
C9_Witness ==
    \E c \in Calls : Succeeded(c) /\ audit[calls[c].discount] = "failed"

\* C10: a successful invocation over a non-empty partnerIds sets discountId
\* on the enrollments of the named partners in its program and on no other,
\* and leaves defaultDiscountId and the Discount rows it found as they were;
\* a successful invocation without partnerIds changes defaultDiscountId of
\* its program and no enrollment.
C10_Frame ==
    \A c \in Calls :
        Succeeded(c) =>
            /\ discounts = BeforeDiscounts \cup
                  {[id |-> calls[c].discount, programId |-> calls[c].programId]}
            /\ calls[c].discount \notin UsedIds(BeforeDiscounts)
            /\ (Given(c) /\ Named(c) # {}) =>
                  /\ discountId =
                        [k \in Enrollments |->
                            IF k[1] = calls[c].programId /\ k[2] \in Named(c)
                              THEN calls[c].discount
                              ELSE BeforeDiscountId[k]]
                  /\ defaultDiscountId = BeforeDefault
            /\ ~Given(c) =>
                  /\ discountId = BeforeDiscountId
                  /\ defaultDiscountId =
                        [BeforeDefault EXCEPT
                            ![calls[c].programId] = calls[c].discount]

\* C10 witness: a discount was created for pa alone in prog_1, where a
\* Discount row existed before; pa is also enrolled in prog_2.
C10_Witness ==
    \E c \in Calls :
        /\ Succeeded(c) /\ Given(c) /\ Named(c) = {"pa"}
        /\ calls[c].programId = "prog_1"
        /\ BeforeDiscounts # {}

\* C17: whatever invocations have run, one after the other or interleaved,
\* every discountId that is set names a Discount row of the enrollment's
\* program, every defaultDiscountId that is set names a Discount row of that
\* program, and no enrollment references the default discount of its program.
C17_References ==
    /\ \A k \in Enrollments :
          discountId[k] # Null =>
            /\ [id |-> discountId[k], programId |-> k[1]] \in discounts
            /\ discountId[k] # defaultDiscountId[k[1]]
    /\ \A p \in Programs :
          defaultDiscountId[p] # Null =>
            [id |-> defaultDiscountId[p], programId |-> p] \in discounts

\* C17 witness: prog_1 has a default discount and pa references another
\* discount of prog_1.
C17_Witness ==
    /\ defaultDiscountId["prog_1"] # Null
    /\ discountId[<<"prog_1", "pa">>] # Null

\* C18: an invocation whose partnerIds repeats an id fails with InvalidInput
\* and leaves the store as it found it, also when every listed partner is
\* enrolled and has no discount.
C18_RepeatedIdRejected ==
    \A c \in Calls :
        (/\ Ended(c) /\ Owned(c) /\ Given(c)
         /\ Cardinality(Named(c)) < Len(calls[c].partnerIds.ids))
        => /\ calls[c].result = "InvalidInput"
           /\ store = before
           /\ calls[c].discount = Null
           /\ calls[c].emitted = 0

\* C18 witness: an ended invocation that listed an enrolled partner without
\* discount twice.
C18_Witness ==
    \E c \in Calls :
        /\ Ended(c) /\ Owned(c) /\ Given(c)
        /\ Cardinality(Named(c)) < Len(calls[c].partnerIds.ids)
        /\ \A q \in Named(c) :
              /\ <<calls[c].programId, q>> \in Enrollments
              /\ discountId[<<calls[c].programId, q>>] = Null

\* the partners whose enrollment references discount id
ReferencedBy(id) == {k \in Enrollments : discountId[k] = id}

\* C14: a lookup for a program other than the workspace's default program,
\* or for a discount that is no row of that program, answers NotFound;
\* otherwise it answers one partner for each enrollment that references the
\* discount at the time of the read, and no other; no step of a lookup
\* changes a Discount, ProgramEnrollment or Program row.
C14_LookupExact ==
    [][lookup' # lookup =>
         /\ store' = store
         /\ lookup'.pc = "done" =>
               IF \/ lookup'.programId # WorkspaceDefaultProgram[CallerWorkspace]
                  \/ [id |-> lookup'.discountId,
                      programId |-> lookup'.programId] \notin discounts
                 THEN lookup'.result = "NotFound" /\ lookup'.partners = <<>>
                 ELSE /\ lookup'.result = "ok"
                      /\ Len(lookup'.partners) =
                            Cardinality(ReferencedBy(lookup'.discountId))
                      /\ Range(lookup'.partners) =
                            {k[2] : k \in ReferencedBy(lookup'.discountId)}
                      /\ \A k \in ReferencedBy(lookup'.discountId) :
                            k[1] = lookup'.programId]_vars

\* C14 witness: a lookup answered two partners while another enrollment
\* references no discount.
C14_Witness ==
    /\ lookup.pc = "done" /\ lookup.result = "ok"
    /\ Len(lookup.partners) = 2
    /\ \E k \in Enrollments : discountId[k] = Null

\* the commissions returned by the listing so far
Returned == UNION {Range(listing.pages[k]) : k \in 1..Len(listing.pages)}

\* the rows of the store a listing is to show, as the claims say it:
\* positive earnings, the requested program, every supplied filter equal,
\* created within the interval
Visible ==
    {i \in commissions :
        LET row == CommissionPool[i] req == listing.req IN
        /\ row.earnings > 0
        /\ row.programId = req.programId
        /\ req.status # Omitted => row.status = req.status
        /\ req.type # Omitted => row.type = req.type
        /\ req.customerId # Omitted => row.customerId = req.customerId
        /\ req.payoutId # Omitted => row.payoutId = req.payoutId
        /\ req.partnerId # Omitted => row.partnerId = req.partnerId
        /\ row.createdAt \in req.startDate..req.endDate}

\* the number of rows page k of n rows holds
PageLength(n, k, pageSize) ==
    LET rest == n - (k - 1) * pageSize
    IN IF rest <= 0 THEN 0 ELSE IF rest < pageSize THEN rest ELSE pageSize

\* C11: whatever the store, the filters, the page, the page size and the
\* sort, every commission a listing returns has earnings > 0 and agrees with
\* every supplied filter, and the filters left out exclude nothing: page k
\* holds as many rows as the visible rows leave for it.
C11_OnlyVisibleRows ==
    listing.status = "ok" =>
        /\ Returned \subseteq Visible
        /\ \A i \in Returned : CommissionPool[i].earnings > 0
        /\ \A k \in 1..Len(listing.pages) :
              Len(listing.pages[k]) =
                PageLength(Cardinality(Visible), k, listing.req.pageSize)

\* C11 witness: a listing with a status filter returned a row while the
\* store held a row without earnings and a row of another status.
C11_Witness ==
    /\ listing.status = "ok" /\ listing.req.status # Omitted
    /\ Returned # {}
    /\ {3, 5} \subseteq commissions

\* C12: the pages 1..n of one listing are pairwise disjoint, hold no row
\* twice, and once they reach past the last visible row hold every visible
\* row, also when rows agree on the sort field.
C12_PagesPartition ==
    listing.status = "ok" =>
        LET pages == listing.pages
            size == listing.req.pageSize
        IN /\ \A k \in 1..Len(pages) :
                 /\ Len(pages[k]) <= size
                 /\ Cardinality(Range(pages[k])) = Len(pages[k])
           /\ \A j, k \in 1..Len(pages) :
                 j # k => Range(pages[j]) \cap Range(pages[k]) = {}
           /\ Len(pages) * size >= Cardinality(Visible) => Returned = Visible

\* C13: a listing for a program other than the workspace's default program
\* is answered not_found with no commission read, and every commission an
\* answered listing returns is of the workspace's default program.
C13_WorkspaceScoped ==
    /\ listing.status # "" =>
          (listing.status = "not_found" <=>
             listing.req.programId # WorkspaceDefaultProgram[CallerWorkspace])
    /\ listing.status = "not_found" => listing.pages = <<>>
    /\ \A i \in Returned :
          CommissionPool[i].programId = WorkspaceDefaultProgram[CallerWorkspace]

\* C13 witness: a listing returned rows from a store that also holds a row
\* of another workspace's program.
C13_Witness ==
    /\ listing.status = "ok" /\ Returned # {}
    /\ 7 \in commissions

\* ------------------------------------------- checkoutSessionCompleted

\* Something of lines 105-144 has been started.
Dispatched ==
    \/ \E e \in Effects : hook.effects[e] # "idle"
    \/ hook.emails > 0
    \/ hook.obPc # "idle"

\* The event is one the handler is to drop.
Dropped ==
    /\ hook.pc # "idle"
    /\ \/ hook.event.mode = "setup"
       \/ ~hook.event.clientReferenceId
       \/ ~hook.event.customer
       \/ ~hook.event.subscription
       \/ ~hook.event.planKnown

\* C15: once the handler has dispatched its side effects it ends by
\* returning, never by raising, and only when onboarding completion, the
\* rate-limit update, the domain-flag update and the token-cache expiry have
\* all been started and have each fulfilled or rejected, whichever of them
\* rejected.  Likewise completeOnboarding, once it has the workspace,
\* returns only when each onboarding-step write and both saved-data tasks
\* have settled, and then fulfils.
C15_EffectsIsolated ==
    /\ Dispatched => \A e \in Effects : hook.effects[e] # "idle"
    /\ (Dispatched /\ hook.pc = "done") =>
         /\ hook.outcome = "returned"
         /\ \A e \in Effects : Settled(hook.effects[e])
    /\ (hook.found = "yes" /\ hook.obPc = "done") =>
         /\ hook.effects["onboarding"] = "fulfilled"
         /\ Settled(hook.invPc) /\ Settled(hook.domPc)
         /\ \A u \in DOMAIN hook.userSteps : Settled(hook.userSteps[u])

\* The handler has returned although three of its side effects rejected.
C15_Witness ==
    /\ hook.pc = "done" /\ hook.outcome = "returned"
    /\ hook.effects["onboarding"] = "rejected"
    /\ hook.effects["rateLimit"] = "rejected"
    /\ hook.effects["domainFlag"] = "fulfilled"
    /\ hook.effects["tokenCache"] = "rejected"

\* C16: an event in setup mode, without client_reference_id or customer,
\* without a subscription reference, or with a price that maps to no plan
\* makes the handler return without raising, without updating the workspace
\* and without dispatching any side effect.
C16_DroppedQuietly ==
    Dropped =>
        /\ hook.outcome # "raised"
        /\ ~hook.updated
        /\ ~Dispatched

\* The drops of C16 other than the missing subscription reference.
C16_DroppedBeforeRetrieve ==
    (Dropped /\ hook.event.subscription) =>
        /\ hook.outcome # "raised"
        /\ ~hook.updated
        /\ ~Dispatched

\* C19: no side effect is started unless the workspace update has
\* completed; after a failed update none is ever started.
C19_UpdateFirst ==
    Dispatched => hook.updated

\* The workspace is updated and all four side effects are on their way.
C19_Witness ==
    /\ hook.updated
    /\ \A e \in Effects : hook.effects[e] = "running"

\* C20: the invites key is deleted only when every saved invite has been
\* attempted and has settled, and the deletion is issued whatever the invites'
\* outcomes; the onboarding-domain key is deleted only after a successful
\* claim; a failed claim is caught, keeps the key and leaves the invite task
\* and the onboarding-step writes to run to their end; without the workspace
\* none of the writes, invites, claims or deletions happens.
C20_OnboardingCleanup ==
    /\ hook.invDel # "no" =>
         /\ Len(hook.invites) = hook.event.savedInvites
         /\ \A i \in DOMAIN hook.invites : Settled(hook.invites[i])
    /\ (Settled(hook.invPc) /\ hook.invites # <<>>) => hook.invDel # "no"
    /\ hook.domDel # "no" => hook.claim = "ok"
    /\ hook.claim = "failed" =>
         /\ hook.domDel = "no"
         /\ hook.domPc = "fulfilled"
         /\ hook.invPc # "idle"
         /\ Len(hook.userSteps) = hook.event.users
         /\ hook.obPc = "done" =>
              /\ hook.effects["onboarding"] = "fulfilled"
              /\ Settled(hook.invPc)
              /\ \A u \in DOMAIN hook.userSteps : Settled(hook.userSteps[u])
    /\ hook.found # "yes" =>
         /\ hook.userSteps = <<>> /\ hook.invites = <<>>
         /\ hook.invPc = "idle" /\ hook.domPc = "idle"
         /\ hook.claim = "" /\ hook.invDel = "no" /\ hook.domDel = "no"

\* The claim failed, every invite failed, and still the invites key is
\* deleted, the onboarding step is written and completeOnboarding returns.
C20_Witness ==
    /\ hook.obPc = "done" /\ hook.claim = "failed"
    /\ hook.invDel = "deleted"
    /\ hook.invites # <<>>
    /\ \A i \in DOMAIN hook.invites : hook.invites[i] = "rejected"
    /\ hook.userSteps # <<>>
    /\ \A u \in DOMAIN hook.userSteps : hook.userSteps[u] = "fulfilled"

====
